---- MODULE Spec2Model ----
(***************************************************************************)
(* np_envs/env.py: path layout of the Conda and Venv backends, the         *)
(* create()/update() lifecycle of PipManaged, the pip.ini configuration    *)
(* written by add_pip_config, and EnvPath's interpreter resolution.        *)
(*                                                                         *)
(* Representation.                                                         *)
(*   string     a sequence of one-character strings  <<"3",".","8">>       *)
(*   component  a string, or a one-element sequence holding a literal      *)
(*              name  <<"conda">>                                          *)
(*   path       a sequence of components; the first one is the anchor      *)
(*   config     a function  section -> (option -> value); a value is a     *)
(*              record [sep, parts]                                        *)
(* The file system is the set fs of paths that exist plus the function ini *)
(* giving the parsed content of every pip.ini that exists.                 *)
(***************************************************************************)
EXTENDS Integers, Sequences, FiniteSets, TLC

VARIABLES ON_WINDOWS, env_name, version, _conda, _venv, fs, ini, last

vars == <<ON_WINDOWS, env_name, version, _conda, _venv, fs, ini, last>>

(***************************************************************************)
(* Bounds and input alphabets                                              *)
(***************************************************************************)
MaxLen == 5

Chars == {"3", ".", "*"}

RECURSIVE StringsUpTo(_)
StringsUpTo(n) ==
    IF n = 0 THEN {<<>>}
    ELSE LET S == StringsUpTo(n - 1)
         IN  S \cup {Append(s, c) : s \in {t \in S : Len(t) = n - 1}, c \in Chars}

Versions == StringsUpTo(MaxLen)

EnvNames == {"proj", "special", "tools"}

NoVersion == <<"None">>

NoPath == <<>>

(***************************************************************************)
(* np_envs.config (not part of the sources at hand)                        *)
(***************************************************************************)
ROOT == << <<"//allen">>, <<"envs">> >>

DEFAULT_PYTHON_VERSION == <<"3", ".", "8", ".", "*">>

Val(s) == [sep |-> "", parts |-> << <<s>> >>]

PIP_CONFIG ==
    ("default" :> ("global" :> ("index-url" :> Val("https://d")
                                @@ "timeout" :> Val("15")
                                @@ "cache-dir" :> Val("default-cache"))))
    @@ ("special" :> ("global" :> ("extra-index-url" :> Val("https://x")
                                   @@ "timeout" :> Val("60")
                                   @@ "cache-dir" :> Val("special-cache"))))
    @@ ("tools" :> ("install" :> ("no-deps" :> Val("true"))))

(***************************************************************************)
(* pathlib and str                                                         *)
(***************************************************************************)
\* p / c : an empty component and "." add nothing to the path
Div(p, c) == IF c = <<>> \/ c = <<".">> THEN p ELSE Append(p, c)

\* p.parent : the anchor is its own parent
Parent(p) == IF Len(p) <= 1 THEN p ELSE SubSeq(p, 1, Len(p) - 1)

\* p.name as a str
PathName(p) == p[Len(p)][1]

RECURSIVE find(_, _)
\* index of the first ".*" in s at or after i, 0 when there is none
find(s, i) ==
    IF i + 1 > Len(s) THEN 0
    ELSE IF s[i] = "." /\ s[i + 1] = "*" THEN i
    ELSE find(s, i + 1)

\* s.split('.*')[0]
split_head(s) ==
    LET k == find(s, 1) IN IF k = 0 THEN s ELSE SubSeq(s, 1, k - 1)

\* np_config.normalize_path: the platform's spelling of the share's anchor
normalize_path(p) ==
    IF p = <<>> \/ ON_WINDOWS THEN p
    ELSE [p EXCEPT ![1] = IF @ = <<"//allen">> THEN <<"/allen">> ELSE @]

(***************************************************************************)
(* EnvPython, PipManaged, Conda, Venv: construction and path properties    *)
(***************************************************************************)
EnvPython(cls, project_root, python_version) ==
    [cls          |-> cls,
     version      |-> IF python_version # NoVersion THEN python_version
                      ELSE DEFAULT_PYTHON_VERSION,
     project_root |-> normalize_path(project_root)]

Conda(project_root, python_version) == EnvPython("Conda", project_root, python_version)

Venv(project_root, python_version) == EnvPython("Venv", project_root, python_version)

name(self) == PathName(self.project_root)

EnvPython_root_whole(self) == Div(self.project_root, self.version)

EnvPython_root(self) == Div(self.project_root, split_head(self.version))

Conda_root(self) == Div(EnvPython_root(self), <<"conda">>)

Venv_root(self) == Div(EnvPython_root(self), <<".venv">>)

root(self) == IF self.cls = "Conda" THEN Conda_root(self) ELSE Venv_root(self)

Conda_python(self) ==
    IF ON_WINDOWS THEN Div(root(self), <<"python.exe">>)
    ELSE Div(Div(root(self), <<"bin">>), <<"python">>)

Venv_python(self) ==
    IF ON_WINDOWS THEN Div(Div(root(self), <<"Scripts">>), <<"python.exe">>)
    ELSE Div(Div(root(self), <<"bin">>), <<"python">>)

python(self) == IF self.cls = "Conda" THEN Conda_python(self) ELSE Venv_python(self)

pip_ini(self) == Div(root(self), <<"pip.ini">>)

pip_cache_in_root(self) == Div(root(self), <<"pip_cache">>)

pip_cache(self) == Div(Parent(root(self)), <<"pip_cache">>)

(***************************************************************************)
(* EnvPath                                                                 *)
(***************************************************************************)
\* EnvPath.__new__: the handle is the path config.ROOT / env_name
EnvPath_path(env) == Div(ROOT, <<env>>)

\* EnvPath.__init__: the version the handle keeps
EnvPath_version(python_version) ==
    IF python_version # NoVersion THEN python_version ELSE DEFAULT_PYTHON_VERSION

EnvPath_conda == Conda(EnvPath_path(env_name), version)

EnvPath_venv == Venv(EnvPath_path(env_name), version)

(***************************************************************************)
(* The file system and the external commands                               *)
(***************************************************************************)
World(f, i) == [fs |-> f, ini |-> i]

Result(f, i, steps, exc) == [fs |-> f, ini |-> i, steps |-> steps, exc |-> exc]

\* pathlib.Path.exists
exists(w, p) == p \in w.fs \/ p \in DOMAIN w.ini

\* a path and every directory above it
Prefixes(p) == {SubSeq(p, 1, k) : k \in 1..Len(p)}

\* one call of subprocess.run, or one step of add_pip_config
Ev(ev, exe, sub, target, pyver, opts, out) ==
    [ev |-> ev, exe |-> exe, sub |-> sub, target |-> target,
     python |-> pyver, opts |-> opts, out |-> out]

\* what subprocess.run(cmd, check=True) can do with a command given as one
\* string: only on Windows is the string split into program and arguments;
\* elsewhere the whole string is taken as the program's name and not found.
\* "failed" is a non-zero exit, "failed_partial" one that leaves the target
\* directory behind, "not_found" a program that could not be started.
RunOutcomes ==
    IF ON_WINDOWS THEN {"ok", "failed", "failed_partial", "not_found"}
    ELSE {"not_found"}

\* the outcomes of the commands a call can run; a command the call cannot
\* reach is given the one outcome "ok"
Outcomes(conda, venv, pip) ==
    [conda : IF conda THEN RunOutcomes ELSE {"ok"},
     venv  : IF venv THEN RunOutcomes ELSE {"ok"},
     pip   : IF pip THEN RunOutcomes \ {"failed_partial"} ELSE {"ok"}]

(***************************************************************************)
(* configparser                                                            *)
(***************************************************************************)
EmptyConfig == <<>>

\* ConfigParser.read_dict(dictionary, source): source only names the input
read_dict(cfg, dictionary, source) ==
    [s \in DOMAIN cfg \cup DOMAIN dictionary |->
        IF s \notin DOMAIN dictionary THEN cfg[s]
        ELSE IF s \notin DOMAIN cfg THEN dictionary[s]
        ELSE [k \in DOMAIN cfg[s] \cup DOMAIN dictionary[s] |->
                 IF k \in DOMAIN dictionary[s] THEN dictionary[s][k] ELSE cfg[s][k]]]

\* ConfigParser.set(section, option, value) on an existing section
set(cfg, section, option, value) ==
    [cfg EXCEPT ![section] = (option :> value) @@ @]

\* PurePath.as_posix
as_posix(p) == [sep |-> "/", parts |-> p]

(***************************************************************************)
(* PipManaged                                                              *)
(***************************************************************************)
PKG == << <<"np_envs">> >>

requirements(self) ==
    Div(Div(PKG, <<"requirements">>), <<name(self), ".requirements.txt">>)

\* pip_ini_config: [exc, cfg]
pip_ini_config(self) ==
    IF name(self) \notin DOMAIN PIP_CONFIG
    THEN [exc |-> "AttributeError", cfg |-> EmptyConfig]
    ELSE LET cfg == read_dict(EmptyConfig, PIP_CONFIG[name(self)],
                              PIP_CONFIG["default"])
         IN  IF "global" \notin DOMAIN cfg
             THEN [exc |-> "NoSectionError", cfg |-> cfg]
             ELSE [exc |-> "None",
                   cfg |-> set(cfg, "global", "cache-dir",
                               as_posix(normalize_path(pip_cache(self))))]

OpenEv(self) == Ev("open", NoPath, "pip.ini", pip_ini(self), <<>>, <<>>, "ok")

WriteEv(self) == Ev("write", NoPath, "pip.ini", pip_ini(self), <<>>, <<>>, "ok")

add_pip_config_unchecked(self, w) ==
    LET dirs == w.fs \cup Prefixes(Parent(pip_ini(self)))
        c    == pip_ini_config(self)
    IN  IF c.exc # "None"
        THEN Result(dirs, (pip_ini(self) :> EmptyConfig) @@ w.ini,
                    <<OpenEv(self)>>, c.exc)
        ELSE Result(dirs, (pip_ini(self) :> c.cfg) @@ w.ini,
                    <<OpenEv(self), WriteEv(self)>>, "None")

add_pip_config(self, w) ==
    IF ~exists(w, root(self))
    THEN Result(w.fs, w.ini, <<>>, "FileNotFoundError")
    ELSE LET dirs == IF ~exists(w, Parent(pip_ini(self)))
                     THEN w.fs \cup Prefixes(Parent(pip_ini(self)))
                     ELSE w.fs
             \* open(self.pip_ini, 'w') truncates before the config is built
             c    == pip_ini_config(self)
         IN  IF c.exc # "None"
             THEN Result(dirs, (pip_ini(self) :> EmptyConfig) @@ w.ini,
                         <<OpenEv(self)>>, c.exc)
             ELSE Result(dirs, (pip_ini(self) :> c.cfg) @@ w.ini,
                         <<OpenEv(self), WriteEv(self)>>, "None")

\* r, then the step s made in the world r left, unless r raised
Then(r, s) ==
    IF r.exc # "None" THEN r
    ELSE Result(s.fs, s.ini, r.steps \o s.steps, s.exc)

\* the effect of an environment-creating command on the files
Created(self, w, out) ==
    IF out = "ok" THEN w.fs \cup Prefixes(root(self)) \cup Prefixes(python(self))
    ELSE IF out = "failed_partial" THEN w.fs \cup Prefixes(root(self))
    ELSE w.fs

\* the exception subprocess.run(..., check=True) raises
Raised(out) ==
    CASE out = "ok" -> "None"
      [] out \in {"failed", "failed_partial"} -> "CalledProcessError"
      [] out = "not_found" -> "FileNotFoundError"

CondaCmd(self, opts, out) ==
    Ev("run", << <<"conda">> >>, "create", root(self), self.version, opts, out)

Conda_run_create_cmd_no_copy(self, args, w, o) ==
    Result(Created(self, w, o.conda), w.ini,
           <<CondaCmd(self, <<"-y", "--no-shortcuts">> \o args, o.conda)>>,
           Raised(o.conda))

Conda_run_create_cmd(self, args, w, o) ==
    Result(Created(self, w, o.conda), w.ini,
           <<CondaCmd(self, <<"-y", "--copy", "--no-shortcuts">> \o args, o.conda)>>,
           Raised(o.conda))

RECURSIVE PipManaged_create(_, _, _, _)

VenvCmd(self, conda_env, args, out) ==
    Ev("run", python(conda_env), "-m venv", root(self), <<>>, <<"--copies">> \o args, out)

Venv_run_create_cmd_ignore_failure(self, args, w, o) ==
    LET conda_env == Conda(self.project_root, self.version)
        first == IF ~exists(w, python(conda_env))
                 THEN PipManaged_create(conda_env, <<"--no-default-packages">>, w, o)
                 ELSE Result(w.fs, w.ini, <<>>, "None")
    IN  Result(Created(self, first, o.venv), first.ini,
               first.steps \o <<VenvCmd(self, conda_env, args, o.venv)>>,
               Raised(o.venv))

Venv_run_create_cmd(self, args, w, o) ==
    LET conda_env == Conda(self.project_root, self.version)
        first == IF ~exists(w, python(conda_env))
                 THEN PipManaged_create(conda_env, <<"--no-default-packages">>, w, o)
                 ELSE Result(w.fs, w.ini, <<>>, "None")
    IN  Then(first,
             Result(Created(self, first, o.venv), first.ini,
                    <<VenvCmd(self, conda_env, args, o.venv)>>, Raised(o.venv)))

run_create_cmd(self, args, w, o) ==
    IF self.cls = "Conda" THEN Conda_run_create_cmd(self, args, w, o)
    ELSE Venv_run_create_cmd(self, args, w, o)

PipManaged_create_unguarded(self, args, w, o) ==
    LET r == run_create_cmd(self, args, w, o)
    IN  Then(r, add_pip_config(self, r))

PipManaged_create_config_first(self, args, w, o) ==
    IF exists(w, python(self)) THEN Result(w.fs, w.ini, <<>>, "None")
    ELSE LET c == add_pip_config_unchecked(self, w)
             r == run_create_cmd(self, args, c, o)
         IN  Result(r.fs, r.ini, c.steps \o r.steps, r.exc)

PipManaged_create(self, args, w, o) ==
    IF exists(w, python(self)) THEN Result(w.fs, w.ini, <<>>, "None")
    ELSE LET r == run_create_cmd(self, args, w, o)
         IN  Then(r, add_pip_config(self, r))

PipCmd(self, req, out) ==
    Ev("run", python(self), "-m pip install", req, <<>>, <<"-r">>, out)

run_update_cmd(self, req, w, o) ==
    Result(w.fs, w.ini, <<PipCmd(self, req, o.pip)>>, Raised(o.pip))

NoReq == << <<"None">> >>

PipManaged_update_config_first(self, req, w, o) ==
    LET r == IF req = NoReq THEN requirements(self) ELSE req
        c == add_pip_config(self, w)
    IN  IF c.exc # "None" THEN c
        ELSE IF ~exists(c, r)
        THEN Result(c.fs, c.ini, c.steps, "FileNotFoundError")
        ELSE Then(c, run_update_cmd(self, r, c, o))

PipManaged_update(self, req, w, o) ==
    LET r == IF req = NoReq THEN requirements(self) ELSE req
    IN  IF ~exists(w, r)
        THEN Result(w.fs, w.ini, <<>>, "FileNotFoundError")
        ELSE LET c == add_pip_config(self, w)
             IN  Then(c, run_update_cmd(self, r, c, o))

(***************************************************************************)
(* The record kept of the last call made on the handle                     *)
(***************************************************************************)
Call(op, cls, args, req, steps, exc, ret) ==
    [op |-> op, cls |-> cls, args |-> args, req |-> req,
     steps |-> steps, exc |-> exc, ret |-> ret]

NoCall == Call("none", "none", <<>>, NoPath, <<>>, "None", NoPath)

\* EnvPath.conda / EnvPath.venv: the backend object, built on first access
Backend(cls) == IF cls = "Conda" THEN EnvPath_conda ELSE EnvPath_venv

Classes == {"Conda", "Venv"}

\* the lazy caches after env.conda or env.venv has been read
Touch(cls) ==
    /\ _conda' = (_conda \/ cls = "Conda")
    /\ _venv' = (_venv \/ cls = "Venv")

(***************************************************************************)
(* EnvPath.python                                                          *)
(***************************************************************************)
EnvPath_python_existing_only(w) ==
    IF exists(w, python(EnvPath_venv)) THEN python(EnvPath_venv)
    ELSE IF exists(w, python(EnvPath_conda)) THEN python(EnvPath_conda)
    ELSE python(EnvPath_venv)

EnvPath_python(w) ==
    IF exists(w, python(EnvPath_venv)) THEN python(EnvPath_venv)
    ELSE python(EnvPath_conda)

(***************************************************************************)
(* Lifecycle: one handle, its two backends, the calls a user can make      *)
(***************************************************************************)
LifecycleVersions == {NoVersion, <<"3", ".", "1", "0", ".", "5">>}

UserArgs == {<<>>, <<"-q">>}

ReqFile == << <<"reqs.txt">> >>

MissingReq == << <<"missing.txt">> >>

ReqInputs == {NoReq, ReqFile, MissingReq}

OldConfig == "global" :> ("timeout" :> Val("9") @@ "proxy" :> Val("old"))

DiskStates == {"absent", "root", "present"}

DiskFs(self, st) ==
    CASE st = "absent"  -> {}
      [] st = "root"    -> Prefixes(root(self))
      [] st = "present" -> Prefixes(root(self)) \cup Prefixes(python(self))

DiskIni(self, st) ==
    IF st = "present" THEN pip_ini(self) :> OldConfig ELSE <<>>

Init ==
    /\ ON_WINDOWS \in BOOLEAN
    /\ env_name \in EnvNames
    /\ \E python_version \in LifecycleVersions :
           version = EnvPath_version(python_version)
    /\ _conda = FALSE
    /\ _venv = FALSE
    /\ \E c \in DiskStates, v \in DiskStates, d \in BOOLEAN :
           /\ fs = DiskFs(EnvPath_conda, c) \cup DiskFs(EnvPath_venv, v)
                     \cup {ReqFile}
                     \cup (IF d THEN {requirements(EnvPath_conda)} ELSE {})
           /\ ini = DiskIni(EnvPath_conda, c) @@ DiskIni(EnvPath_venv, v)
    /\ last = NoCall

\* env.conda.create(*args) / env.venv.create(*args)
Create ==
    \E cls \in Classes, args \in UserArgs :
    \E o \in Outcomes(TRUE, cls = "Venv", FALSE) :
    \E r \in {PipManaged_create(Backend(cls), args, World(fs, ini), o)} :
            /\ Touch(cls)
            /\ fs' = r.fs
            /\ ini' = r.ini
            /\ last' = Call("create", cls, args, NoPath, r.steps, r.exc, NoPath)
            /\ UNCHANGED <<ON_WINDOWS, env_name, version>>

\* env.conda.update(requirements) / env.venv.update(requirements)
Update ==
    \E cls \in Classes, req \in ReqInputs :
    \E o \in Outcomes(FALSE, FALSE, TRUE) :
    \E r \in {PipManaged_update(Backend(cls), req, World(fs, ini), o)} :
            /\ Touch(cls)
            /\ fs' = r.fs
            /\ ini' = r.ini
            /\ last' = Call("update", cls, <<>>, req, r.steps, r.exc, NoPath)
            /\ UNCHANGED <<ON_WINDOWS, env_name, version>>

\* env.python
Python ==
    /\ _venv' = TRUE
    /\ _conda' = (_conda \/ ~exists(World(fs, ini), python(EnvPath_venv)))
    /\ last' = Call("python", "EnvPath", <<>>, NoPath, <<>>, "None",
                    EnvPath_python(World(fs, ini)))
    /\ UNCHANGED <<ON_WINDOWS, env_name, version, fs, ini>>

Next == Create \/ Update \/ Python

Spec == Init /\ [][Next]_vars

(***************************************************************************)
(* Path layout: the handle is drawn from every version string up to MaxLen *)
(* and its path properties are read.                                       *)
(***************************************************************************)
InitPath ==
    /\ ON_WINDOWS \in BOOLEAN
    /\ env_name \in EnvNames
    /\ \E python_version \in Versions \cup {NoVersion} :
           version = EnvPath_version(python_version)
    /\ _conda = FALSE
    /\ _venv = FALSE
    /\ fs = {}
    /\ ini = <<>>
    /\ last = NoCall

ReadRoot ==
    \E cls \in Classes :
        /\ Touch(cls)
        /\ last' = Call("root", cls, <<>>, NoPath, <<>>, "None", root(Backend(cls)))
        /\ UNCHANGED <<ON_WINDOWS, env_name, version, fs, ini>>

ReadPipCache ==
    \E cls \in Classes :
        /\ Touch(cls)
        /\ last' = Call("pip_cache", cls, <<>>, NoPath, <<>>, "None",
                        pip_cache(Backend(cls)))
        /\ UNCHANGED <<ON_WINDOWS, env_name, version, fs, ini>>

NextPath == ReadRoot \/ ReadPipCache

SpecPath == InitPath /\ [][NextPath]_vars

(***************************************************************************)
(* Version strings                                                         *)
(***************************************************************************)
EndsWithWildcard(v) == Len(v) >= 2 /\ v[Len(v) - 1] = "." /\ v[Len(v)] = "*"

StripWildcard(v) == IF EndsWithWildcard(v) THEN SubSeq(v, 1, Len(v) - 2) ELSE v

\* a plain version, or a plain version followed by ".*"
WildcardOnlyAsSuffix(v) ==
    \A i \in 1..Len(v) : v[i] = "*" => (i = Len(v) /\ EndsWithWildcard(v))

HasStar(p) == \E i \in 1..Len(p) : \E j \in 1..Len(p[i]) : p[i][j] = "*"

ProjectRoot == normalize_path(EnvPath_path(env_name))

SegmentReduced(v) ==
    LET self == EnvPython("EnvPython", EnvPath_path(env_name), v)
        bare == EnvPython("EnvPython", EnvPath_path(env_name), StripWildcard(v))
    IN  /\ EnvPython_root(self) = Div(ProjectRoot, StripWildcard(v))
        /\ ~HasStar(EnvPython_root(self))
        /\ EnvPython_root(self) = EnvPython_root(bare)
        /\ Parent(Conda_root(self)) = EnvPython_root(self)
        /\ Parent(Venv_root(self)) = EnvPython_root(self)
        /\ (last.op = "root" => Parent(last.ret) = Div(ProjectRoot, StripWildcard(v)))

C2_AsStated == EndsWithWildcard(version) => SegmentReduced(version)

(***************************************************************************)
(* C2 amended: the same, for every version string ending in ".*" whose     *)
(* only "*" is the one of that suffix.                                     *)
(***************************************************************************)
C2_WildcardSegment ==
    (EndsWithWildcard(version) /\ WildcardOnlyAsSuffix(version))
        => SegmentReduced(version)

C2_Witness ==
    /\ last.op = "root"
    /\ EndsWithWildcard(version) /\ WildcardOnlyAsSuffix(version)
    /\ Len(version) > 2
    /\ Parent(last.ret) = Div(ProjectRoot, StripWildcard(version))

(***************************************************************************)
(* Reading the record of the last call                                     *)
(***************************************************************************)
Now == World(fs, ini)

Steps == last.steps

Steps2 == last'.steps

IsCondaCmd(e) == e.ev = "run" /\ e.sub = "create"

IsVenvCmd(e) == e.ev = "run" /\ e.sub = "-m venv"

IsPipCmd(e) == e.ev = "run" /\ e.sub = "-m pip install"

\* the creation command of the backend self
IsCreateCmdOf(self, e) ==
    /\ IF self.cls = "Conda" THEN IsCondaCmd(e) ELSE IsVenvCmd(e)
    /\ e.target = root(self)

Opts(e) == {e.opts[i] : i \in 1..Len(e.opts)}

\* the requirements file update(req) looks for
Wanted(cls, req) == IF req = NoReq THEN requirements(Backend(cls)) ELSE req

FilesUnchanged == fs' = fs /\ ini' = ini

(***************************************************************************)
(* C3: create() on a backend whose interpreter exists returns without      *)
(* error, runs no command and leaves every file, pip.ini included, as it   *)
(* was; and no call of create() runs the creation command of a backend     *)
(* whose interpreter exists.                                               *)
(***************************************************************************)
C3_CreateNoOpWhenPresent ==
    [][last'.op = "create" =>
          /\ exists(Now, python(Backend(last'.cls))) =>
                 /\ last'.exc = "None"
                 /\ Steps2 = <<>>
                 /\ FilesUnchanged
          /\ \A i \in 1..Len(Steps2) : \A cls \in Classes :
                 IsCreateCmdOf(Backend(cls), Steps2[i])
                     => ~exists(Now, python(Backend(cls)))]_vars

C3_Witness ==
    /\ last.op = "create" /\ last.cls = "Venv"
    /\ last.exc = "None" /\ Steps = <<>>
    /\ exists(Now, python(EnvPath_venv))
    /\ ~exists(Now, python(EnvPath_conda))
    /\ pip_ini(EnvPath_venv) \in DOMAIN ini
    /\ ini[pip_ini(EnvPath_venv)] = OldConfig

(***************************************************************************)
(* C4: update() with a requirements path that does not exist, given or     *)
(* the default one, raises FileNotFoundError having taken no step: no      *)
(* pip.ini is opened, no command is run, no file changes.                  *)
(***************************************************************************)
C4_UpdateMissingRequirements ==
    [][(last'.op = "update" /\ ~exists(Now, Wanted(last'.cls, last'.req))) =>
          /\ last'.exc = "FileNotFoundError"
          /\ Steps2 = <<>>
          /\ FilesUnchanged]_vars

C4_Witness ==
    /\ last.op = "update" /\ last.req = NoReq
    /\ ~exists(Now, Wanted(last.cls, last.req))
    /\ exists(Now, root(Backend(last.cls)))
    /\ last.exc = "FileNotFoundError" /\ Steps = <<>>

(***************************************************************************)
(* C5: update() with an existing requirements file on a backend whose      *)
(* root directory does not exist raises FileNotFoundError from             *)
(* add_pip_config: nothing is created and pip is not run.                  *)
(***************************************************************************)
C5_UpdateWithoutRoot ==
    [][(/\ last'.op = "update"
        /\ exists(Now, Wanted(last'.cls, last'.req))
        /\ ~exists(Now, root(Backend(last'.cls)))) =>
          /\ last'.exc = "FileNotFoundError"
          /\ Steps2 = <<>>
          /\ FilesUnchanged
          /\ ~exists(World(fs', ini'), pip_ini(Backend(last'.cls)))]_vars

C5_Witness ==
    /\ last.op = "update"
    /\ exists(Now, Wanted(last.cls, last.req))
    /\ ~exists(Now, root(Backend(last.cls)))
    /\ last.exc = "FileNotFoundError" /\ Steps = <<>>

(***************************************************************************)
(* C6 as stated: whenever add_pip_config has written a backend's pip.ini,   *)
(* the file holds the per-name entry of PIP_CONFIG merged over the         *)
(* 'default' entry, with global.cache-dir set to the normalized pip_cache. *)
(***************************************************************************)
MergedConfig(self) ==
    LET named == IF name(self) \in DOMAIN PIP_CONFIG THEN PIP_CONFIG[name(self)]
                 ELSE EmptyConfig
        cfg   == read_dict(read_dict(EmptyConfig, PIP_CONFIG["default"], "<dict>"),
                           named, "<dict>")
    IN  set(IF "global" \in DOMAIN cfg THEN cfg ELSE ("global" :> EmptyConfig) @@ cfg,
            "global", "cache-dir", as_posix(normalize_path(pip_cache(self))))

C6_AsStated ==
    \A cls \in Classes :
        (\E i \in 1..Len(Steps) : Steps[i] = WriteEv(Backend(cls))) =>
            /\ pip_ini(Backend(cls)) \in DOMAIN ini
            /\ ini[pip_ini(Backend(cls))] = MergedConfig(Backend(cls))

(***************************************************************************)
(* C7: EnvPath.python returns the Venv interpreter path exactly when that  *)
(* path exists and the Conda interpreter path otherwise, whether or not    *)
(* the latter exists, and changes nothing but the lazy backend caches.     *)
(***************************************************************************)
C7_ResolvedInterpreter ==
    [][last'.op = "python" =>
          /\ (last'.ret = python(EnvPath_venv)) <=> exists(Now, python(EnvPath_venv))
          /\ ~exists(Now, python(EnvPath_venv)) => last'.ret = python(EnvPath_conda)
          /\ last'.exc = "None"
          /\ FilesUnchanged
          /\ UNCHANGED <<ON_WINDOWS, env_name, version>>
          /\ (_conda => _conda') /\ (_venv => _venv')]_vars

C7_Witness ==
    /\ last.op = "python"
    /\ ~exists(Now, python(EnvPath_venv))
    /\ ~exists(Now, python(EnvPath_conda))
    /\ last.ret = python(EnvPath_conda)

(***************************************************************************)
(* C8: Venv.create() on a venv whose interpreter is missing: when the      *)
(* Conda interpreter is missing too, the first step is the conda-create    *)
(* command with --no-default-packages, the venv command comes only after   *)
(* a Conda creation that succeeded, runs the Conda interpreter, and is the *)
(* only venv command; when the Conda interpreter exists, no conda-create   *)
(* command is run and the venv command is the first step.                  *)
(***************************************************************************)
C8_VenvCreateOrder ==
    [][(/\ last'.op = "create" /\ last'.cls = "Venv"
        /\ ~exists(Now, python(EnvPath_venv))) =>
          /\ Steps2 # <<>>
          /\ \A i \in 1..Len(Steps2) :
                 IsVenvCmd(Steps2[i]) =>
                     /\ Steps2[i].exe = python(EnvPath_conda)
                     /\ Steps2[i].target = root(EnvPath_venv)
                     /\ \A j \in 1..Len(Steps2) : IsVenvCmd(Steps2[j]) => j = i
          /\ ~exists(Now, python(EnvPath_conda)) =>
                 /\ IsCondaCmd(Steps2[1])
                 /\ Steps2[1].target = root(EnvPath_conda)
                 /\ Steps2[1].opts = <<"-y", "--copy", "--no-shortcuts",
                                       "--no-default-packages">>
                 /\ \A i \in 1..Len(Steps2) :
                        IsVenvCmd(Steps2[i]) =>
                            /\ i > 1
                            /\ Steps2[1].out = "ok"
                            /\ \A j \in 1..(i - 1) : Steps2[j].out = "ok"
                 /\ Steps2[1].out # "ok" =>
                        /\ Len(Steps2) = 1
                        /\ last'.exc = Raised(Steps2[1].out)
          /\ exists(Now, python(EnvPath_conda)) =>
                 /\ IsVenvCmd(Steps2[1])
                 /\ \A i \in 1..Len(Steps2) : ~IsCondaCmd(Steps2[i])]_vars

C8_Witness ==
    /\ last.op = "create" /\ last.cls = "Venv"
    /\ Len(Steps) >= 4
    /\ IsCondaCmd(Steps[1]) /\ Steps[1].out = "ok"
    /\ IsVenvCmd(Steps[4]) /\ Steps[4].out = "ok"
    /\ Steps[4].exe = python(EnvPath_conda)
    /\ exists(Now, python(EnvPath_venv))

(***************************************************************************)
(* C9 as stated: every conda-create command started by a create() call     *)
(* carries the Conda root, the requested version and the three flags       *)
(* --no-default-packages, --no-shortcuts and --copy.                       *)
(***************************************************************************)
C9_AsStated ==
    last.op = "create" =>
        \A i \in 1..Len(Steps) :
            (IsCondaCmd(Steps[i]) /\ Steps[i].out # "not_found") =>
                /\ Steps[i].target = root(EnvPath_conda)
                /\ Steps[i].python = version
                /\ {"--no-default-packages", "--no-shortcuts", "--copy"}
                       \subseteq Opts(Steps[i])

(***************************************************************************)
(* C9 amended: every conda-create command a create() call hands to         *)
(* subprocess.run, started or not, carries the Conda root, the requested   *)
(* version and -y --copy --no-shortcuts                                    *)
(* followed by the extra arguments: those of the caller for                *)
(* Conda.create(), and --no-default-packages alone for the call made by    *)
(* Venv.create(); a direct call without extra arguments carries no         *)
(* --no-default-packages.                                                  *)
(***************************************************************************)
C9_CondaCommand ==
    last.op = "create" =>
        \A i \in 1..Len(Steps) :
            IsCondaCmd(Steps[i]) =>
                /\ Steps[i].exe = << <<"conda">> >>
                /\ Steps[i].target = root(EnvPath_conda)
                /\ Steps[i].python = version
                /\ Steps[i].opts = <<"-y", "--copy", "--no-shortcuts">> \o
                       (IF last.cls = "Conda" THEN last.args
                        ELSE <<"--no-default-packages">>)

C9_Witness ==
    /\ last.op = "create" /\ last.cls = "Conda" /\ last.args = <<>>
    /\ Steps # <<>>
    /\ IsCondaCmd(Steps[1]) /\ Steps[1].out = "ok"
    /\ "--no-default-packages" \notin Opts(Steps[1])
    /\ {"--copy", "--no-shortcuts"} \subseteq Opts(Steps[1])

====
